---- MODULE Spec2Model ----
(***************************************************************************)
(* Model of the remote-object persistence core of django-roa:             *)
(* ROAModel.save_base and ROAModel.delete (src/django_roa/db/models.py),  *)
(* the URL helpers of the same file and ROAException                      *)
(* (src/django_roa/db/exceptions.py).                                      *)
(*                                                                         *)
(* Every caller p holds one entity (its class etype[p] and its attribute  *)
(* values entity[p]) and runs one save() or one delete() on it.  A save   *)
(* is a stack of save_base frames; every request sent to the transport    *)
(* client and every notification sent to observers is appended to log.    *)
(* The answers of the remote server are inputs chosen with \E.            *)
(***************************************************************************)
EXTENDS Integers, Sequences, FiniteSets, TLC

\* ------------------------------------------------------------------ bounds
\* pk values a caller may have set on its entity: "1" .. MaxPk
MaxPk == 1
\* pk values the remote server may answer with: "1" .. MaxServerPk
MaxServerPk == 2
NumProcs == 2
\* lines of the message of a failed request: at most MaxLines
MaxLines == 5

None == "None"
Pks == {ToString(i) : i \in 1..MaxPk}
ServerPks == {ToString(i) : i \in 1..MaxServerPk}
PkVals == {None} \cup Pks
Procs == 1..NumProcs
NoType == "NoType"
NoField == "NoField"

\* ------------------------------------------------- the declared types
\* RemotePage and RemotePageWithOverriddenUrls are the example models;
\* SlugPage has a custom primary key (slug), ChildPage and ComboPage are
\* multi-table children (of RemotePage; of RemotePage and SlugPage),
\* ProxyPage is a proxy of RemotePage, NoUrlPage keeps ROAModel's default
\* get_resource_url_list, MappedPage names local_title what the remote
\* schema names title.
Types == {"RemotePage", "SlugPage", "ChildPage", "ComboPage", "ProxyPage",
          "RemotePageWithOverriddenUrls", "NoUrlPage", "MappedPage"}

Fields == {"id", "slug", "remotepage_ptr_id", "slugpage_ptr_id", "title",
           "local_title"}

\* meta.proxy
IsProxy(t) == t = "ProxyPage"

\* getattr(meta, "auto_created", False): no declared type is auto-created
AutoCreated(t) == FALSE

\* meta.pk.attname
PkAttname(t) ==
    CASE t = "SlugPage" -> "slug"
      [] t \in {"ChildPage", "ComboPage"} -> "remotepage_ptr_id"
      [] OTHER -> "id"

\* meta.parents.items(): pairs <<parent, link field attname>>
Parents(t) ==
    CASE t = "ChildPage" -> << <<"RemotePage", "remotepage_ptr_id">> >>
      [] t = "ComboPage" -> << <<"RemotePage", "remotepage_ptr_id">>,
                               <<"SlugPage", "slugpage_ptr_id">> >>
      [] t = "ProxyPage" -> << <<"RemotePage", NoField>> >>
      [] OTHER -> << >>

\* the fields an instance of the type carries (inherited ones included)
FieldsOf(t) ==
    CASE t = "SlugPage" -> <<"slug">>
      [] t = "ChildPage" -> <<"id", "title", "remotepage_ptr_id">>
      [] t = "ComboPage" -> <<"id", "title", "remotepage_ptr_id",
                              "slug", "slugpage_ptr_id">>
      [] t = "RemotePageWithOverriddenUrls" -> <<"id", "title", "slug">>
      [] t = "MappedPage" -> <<"id", "local_title">>
      [] OTHER -> <<"id", "title">>

\* fields the serializer of the type requires in decoded data
RequiredFields(t) ==
    CASE t = "SlugPage" -> {"slug"}
      [] t = "RemotePageWithOverriddenUrls" -> {"title", "slug"}
      [] OTHER -> {}

Range(s) == {s[i] : i \in 1..Len(s)}

\* ------------------------------------------------------- configuration
\* ROA_URL_OVERRIDES_LIST, ROA_URL_OVERRIDES_DETAIL, ROA_DJANGO_ERRORS,
\* ROA_MODEL_NAME_MAPPING: read once at import, never written afterwards.
SettingsListOverrides ==
    [t \in {"RemotePageWithOverriddenUrls"} |-> "overridden/"]

SettingsDetailOverrides == {"RemotePageWithOverriddenUrls"}

\* the configuration of the test project; ROA_MODEL_NAME_MAPPING is not set
\* there and defaults to the empty list
Settings ==
    [list_overrides |-> SettingsListOverrides,
     detail_overrides |-> SettingsDetailOverrides,
     count_overrides |-> {},
     django_errors |-> TRUE,
     name_mapping |-> << >>]

\* ROA_MODEL_NAME_MAPPING: pairs <<local_name, remote_name>>
TitleMapping == << <<"local_title", "title">> >>

\* ROA_URL_OVERRIDES_LIST with one more entry, whose value is the empty
\* string
EmptyListOverride ==
    [t \in {"RemotePageWithOverriddenUrls", "RemotePage", "NoUrlPage"} |->
        CASE t = "RemotePage" -> ""
          [] t = "NoUrlPage" -> "configured/"
          [] OTHER -> SettingsListOverrides[t]]

\* ROA_URL_OVERRIDES_COUNT: not set in the test project; here with an entry
OtherCountOverrides == {"SlugPage"}

\* a configuration that differs from the test project's in every setting:
\* ROA_DJANGO_ERRORS keeps its default (exceptions.py line 4), names are
\* remapped, the list overrides have the empty entry
OtherSettings ==
    [list_overrides |-> EmptyListOverride,
     detail_overrides |-> SettingsDetailOverrides,
     count_overrides |-> OtherCountOverrides,
     django_errors |-> FALSE,
     name_mapping |-> TitleMapping]

\* the configurations a process may run with
Configs == {Settings, OtherSettings}

VARIABLES config, etype, entity, entry, op, status, err, stack, log, exc

vars == <<config, etype, entity, entry, op, status, err, stack, log, exc>>

\* ---------------------------------------------------------- URL resolver
RaisesException == "raises Exception"

\* the type's own get_resource_url_list
DefaultListUrl(t) ==
    CASE t = "RemotePage" -> "remotepage/"
      [] t = "ProxyPage" -> "remotepage/"
      [] t = "SlugPage" -> "slugpage/"
      [] t = "ChildPage" -> "childpage/"
      [] t = "ComboPage" -> "combopage/"
      [] t = "RemotePageWithOverriddenUrls" -> ""
      [] t = "MappedPage" -> "mappedpage/"
      [] OTHER -> RaisesException

\* overridden and overridden or func(*args, **kwargs)
get_resource_url_list(cfg, t) ==
    IF t \in DOMAIN cfg.list_overrides /\ cfg.list_overrides[t] # ""
    THEN cfg.list_overrides[t]
    ELSE DefaultListUrl(t)

\* u"%s%s/" % (self.get_resource_url_list(), self.pk)
DefaultDetailUrl(cfg, t, attrs) ==
    <<get_resource_url_list(cfg, t), attrs[PkAttname(t)], "/">>

\* lambda o: u"%s%s-%s/" % (o.get_resource_url_list(), o.id, o.slug)
OverriddenDetailUrl(cfg, t, attrs) ==
    <<get_resource_url_list(cfg, t), attrs["id"], "-", attrs["slug"], "/">>

\* the detail URL built from the list URL the type declares, whatever the
\* override tables hold
DetailUrlFromDeclaredList(cfg, t, attrs) ==
    <<DefaultListUrl(t), attrs[PkAttname(t)], "/">>

\* ROA_URL_OVERRIDES_DETAIL.get(key, func)(self, *args, **kwargs)
get_resource_url_detail(cfg, t, attrs) ==
    IF t \in cfg.detail_overrides
    THEN OverriddenDetailUrl(cfg, t, attrs)
    ELSE DefaultDetailUrl(cfg, t, attrs)

\* u"%scount/" % (self.get_resource_url_list(),)
DefaultCountUrl(cfg, t, attrs) == <<get_resource_url_list(cfg, t), "count/">>

\* an entry of ROA_URL_OVERRIDES_COUNT, applied to the instance:
\* lambda o: u"%stotal/" % o.get_resource_url_list()
OverriddenCountUrl(cfg, t, attrs) == <<get_resource_url_list(cfg, t), "total/">>

\* the count URL built from the list URL the type declares, whatever the
\* override tables hold
CountUrlFromDeclaredList(cfg, t, attrs) == <<DefaultListUrl(t), "count/">>

\* ROA_URL_OVERRIDES_COUNT.get(key, func)(self, *args, **kwargs)
get_resource_url_count(cfg, t, attrs) ==
    IF t \in cfg.count_overrides
    THEN OverriddenCountUrl(cfg, t, attrs)
    ELSE DefaultCountUrl(cfg, t, attrs)

\* a resolver that never raises
UrlAlwaysResolves(cfg, t) == TRUE

\* the list URL of the type resolves: line 299 is not what answers
UrlResolves(cfg, t) == get_resource_url_list(cfg, t) # RaisesException

\* ---------------------------------------------------------- payload codec
RECURSIVE EncodeFields(_, _)
EncodeFields(fs, attrs) ==
    IF fs = << >> THEN << >>
    ELSE <<Head(fs), attrs[Head(fs)]>> \o EncodeFields(Tail(fs), attrs)

\* self.get_renderer().render(self.get_serializer(self).data)
Encode(t, attrs) == EncodeFields(FieldsOf(t), attrs)

\* parser.parse(StringIO(response)): name/value pairs, or a parse error
Parses(body) == Len(body) % 2 = 0

ParsedNames(body) == {body[2 * i - 1] : i \in 1..(Len(body) \div 2)}

ParsedValue(body, f) ==
    LET is == {i \in 1..(Len(body) \div 2) : body[2 * i - 1] = f}
    IN body[2 * (CHOOSE i \in is : \A j \in is : j <= i)]

\* serializer.is_valid()
IsValid(t, body) == RequiredFields(t) \subseteq ParsedNames(body)

\* serializer.object: a fresh instance built from the decoded data
DecodedObject(t, body) ==
    [f \in Fields |->
        IF f \in Range(FieldsOf(t)) /\ f \in ParsedNames(body)
        THEN ParsedValue(body, f) ELSE None]

\* response.replace(remote_name, local_name) without effect
ReplaceNothing(body, remote_name, local_name) == body

\* response.replace(remote_name, local_name): every occurrence is replaced,
\* in names and in values alike
Replace(body, remote_name, local_name) ==
    [i \in DOMAIN body |->
        IF body[i] = remote_name THEN local_name ELSE body[i]]

\* lines 409-410: for local_name, remote_name in ROA_MODEL_NAME_MAPPING
RECURSIVE Remap(_, _)
Remap(body, mapping) ==
    IF mapping = << >> THEN body
    ELSE Remap(Replace(body, Head(mapping)[2], Head(mapping)[1]),
               Tail(mapping))

\* the bodies the remote server may answer a PUT or POST with: the stored
\* object with the key k, an object without id (its title is X, its slug is
\* the word title), a truncated body
ResponseBodies ==
    {<<"id", k, "slug", k, "remotepage_ptr_id", k>> : k \in ServerPks}
    \cup {<<"title", "X", "slug", "title">>, <<"id">>}


\* ------------------------------------------------------------ ROAException
\* the message of a failed request is a sequence of lines; SummaryStart and
\* SummaryEnd stand for the two marks of a Django debug page,
\* '<body>\n<div id="summary">\n  ' and '<th>Python Executable:</th>'
SummaryStart == "<div id=summary>"

SummaryEnd == "<th>Python Executable:</th>"

MsgLines == {SummaryStart, SummaryEnd, "", "T:", "<h1>Error</h1>", "  d  "}

Messages == UNION {[1..n -> MsgLines] : n \in 0..MaxLines}

StatusCodes == {"400", "500"}

\* strip_tags(line)
StripTags(line) ==
    CASE line = "<h1>Error</h1>" -> "Error"
      [] line = SummaryStart -> ""
      [] line = SummaryEnd -> "Python Executable:"
      [] OTHER -> line

\* line.strip()
Strip(line) == IF line = "  d  " THEN "d" ELSE line

\* line_content.endswith(':')
EndsWithColon(content) == content \in {"T:", "Error:", "Python Executable:"}

\* "%s:" % line_content
WithColon(content) ==
    CASE content = "Error" -> "Error:"
      [] content = "d" -> "d:"
      [] OTHER -> content

Occurrences(msg, mark) == {i \in DOMAIN msg : msg[i] = mark}

First(is) == CHOOSE i \in is : \A j \in is : i <= j

\* message.split(mark, 1)[1]: what follows the first occurrence of the mark
AfterFirst(msg, mark) ==
    SubSeq(msg, First(Occurrences(msg, mark)) + 1, Len(msg))

\* text.split(mark, 1)[0]: what precedes the first occurrence of the mark,
\* the whole text when the mark is absent
BeforeFirst(msg, mark) ==
    IF Occurrences(msg, mark) = {} THEN msg
    ELSE SubSeq(msg, 1, First(Occurrences(msg, mark)) - 1)

\* lines 23-31 with every detail line appended under the first title
RECURSIVE ParseLinesFirstTitle(_, _, _)
ParseLinesFirstTitle(lines, title, result) ==
    IF lines = << >> THEN result
    ELSE LET line_content == Strip(StripTags(Head(lines)))
         IN IF line_content = ""
            THEN ParseLinesFirstTitle(Tail(lines), title, result)
            ELSE IF title = None
            THEN ParseLinesFirstTitle(Tail(lines),
                    IF EndsWithColon(line_content) THEN line_content
                    ELSE WithColon(line_content), result)
            ELSE IF EndsWithColon(line_content)
            THEN ParseLinesFirstTitle(Tail(lines), title, result)
            ELSE ParseLinesFirstTitle(Tail(lines), title,
                    result \o <<title, line_content, "\n">>)

\* lines 23-31: the loop over strip_tags(summary).split('\n')
RECURSIVE ParseLines(_, _, _)
ParseLines(lines, title, result) ==
    IF lines = << >> THEN result
    ELSE LET line_content == Strip(StripTags(Head(lines)))
         IN IF line_content = ""
            THEN ParseLines(Tail(lines), title, result)
            ELSE IF EndsWithColon(line_content)
            THEN ParseLines(Tail(lines), line_content, result)
            ELSE IF title = None
            THEN ParseLines(Tail(lines), WithColon(line_content), result)
            ELSE ParseLines(Tail(lines), title,
                            result \o <<title, line_content, "\n">>)

\* lines 17-33: parse_django_error, when the summary mark is in the message
\* (line 19 indexes the second part of the split)
parse_django_error(message, status_code) ==
    LET summary == BeforeFirst(AfterFirst(message, SummaryStart), SummaryEnd)
    IN ParseLines(summary, None, << >>) \o <<"Status code:", status_code>>

\* ------------------------------------------------------ transport client
\* what a call of resource.get/put/post/delete may end with
Outcomes == {"ok", "RequestFailed", "ResourceNotFound", "RedirectLimit"}

\* "except <clause>" catches the raised error
Catches(clause, raised) == raised = clause

\* --------------------------------------------------------------- state
NoAttrs == [f \in Fields |-> None]

\* an exception handed to ROAException(...), then the ROAException built
\* from it (message, status_code) and its string form
Exc(kind, arg_message, arg_status, pc, message, status_code, str) ==
    [kind |-> kind, arg_message |-> arg_message, arg_status |-> arg_status,
     pc |-> pc, message |-> message, status_code |-> status_code, str |-> str]

NoExc == Exc("none", << >>, None, "none", << >>, None, << >>)

\* line 391 / 405: ROAException(e) of a RequestFailed e;
\* line 416: ROAException('Invalid deserialization')
NewExcs ==
    {Exc("RequestFailed", m, c, "new", << >>, None, << >>) :
        m \in Messages, c \in StatusCodes}
    \cup {Exc("str", <<"Invalid deserialization">>, None, "new", << >>, None,
              << >>)}

\* a request and the server's answer to it (outcome, body), or a signal
\* (sender cls, instance inst, created)
Event(p, kind, cls, url, payload, outcome, body, inst, created) ==
    [p |-> p, kind |-> kind, cls |-> cls, url |-> url, payload |-> payload,
     outcome |-> outcome, body |-> body, inst |-> inst, created |-> created]

Request(p, verb, cls, url, payload, outcome, body) ==
    Event(p, verb, cls, url, payload, outcome, body, NoAttrs, FALSE)

Signal(p, name, sender, inst, created) ==
    Event(p, name, sender, << >>, << >>, "none", << >>, inst, created)

\* one invocation of save_base
Frame(cls, origin, force_insert, force_update) ==
    [cls |-> cls, origin |-> origin, raw |-> FALSE,
     force_insert |-> force_insert, force_update |-> force_update,
     pc |-> "enter", i |-> 1, pk_is_set |-> FALSE, record_exists |-> FALSE,
     payload |-> << >>, body |-> << >>, rebound |-> FALSE, obj |-> NoAttrs]

Top(p) == stack[p][Len(stack[p])]

SetTop(p, f) == [stack EXCEPT ![p] = [@ EXCEPT ![Len(@)] = f]]

\* the attribute values an instance of type t can hold before the call
InitialAttrs(t) ==
    {a \in [Fields -> PkVals] :
        /\ a["title"] = None
        /\ a["local_title"] = None
        /\ \A f \in Fields \ Range(FieldsOf(t)) : a[f] = None}

\* an exception raised in a recursive call is swallowed there: the call
\* returns to line 349 of its caller as if it had succeeded
RaiseSwallowedInParent(p, e) ==
    IF Len(stack[p]) > 1
    THEN /\ stack' = [stack EXCEPT ![p] =
                [SubSeq(@, 1, Len(@) - 1) EXCEPT ![Len(@) - 1].pc = "setlink"]]
         /\ UNCHANGED <<status, err>>
    ELSE /\ status' = [status EXCEPT ![p] = "failed"]
         /\ err' = [err EXCEPT ![p] = e]
         /\ UNCHANGED stack

\* an exception leaves save_base / delete and reaches the caller; the frames
\* are kept as they were when it was raised (the traceback)
Raise(p, e) ==
    /\ status' = [status EXCEPT ![p] = "failed"]
    /\ err' = [err EXCEPT ![p] = e]
    /\ UNCHANGED stack

\* the calls a caller may make: save(force_insert, force_update) or delete()
\* on an entity of type t holding the attribute values a
Calls ==
    {c \in [t : Types, a : [Fields -> PkVals], o : {"save", "delete"},
            fi : BOOLEAN, fu : BOOLEAN] :
        /\ c.a \in InitialAttrs(c.t)
        /\ c.o = "delete" => ~c.fi /\ ~c.fu}

IdleCall == [t |-> "RemotePage", a |-> NoAttrs, o |-> "none",
             fi |-> FALSE, fu |-> FALSE]

StateOf(c) ==
    [status |-> IF c.o = "none" THEN "off" ELSE "running",
     stack |-> IF c.o = "save" THEN <<Frame(NoType, NoType, c.fi, c.fu)>>
               ELSE << >>]

\* the callers in active each start one call; the others call nothing
InitWith(active) ==
    /\ config \in Configs
    /\ \E cs \in [active -> Calls] :
          LET c(p) == IF p \in active THEN cs[p] ELSE IdleCall
          IN /\ etype = [p \in Procs |-> c(p).t]
             /\ entity = [p \in Procs |-> c(p).a]
             /\ op = [p \in Procs |-> c(p).o]
             /\ status = [p \in Procs |-> StateOf(c(p)).status]
             /\ stack = [p \in Procs |-> StateOf(c(p)).stack]
    /\ entry = entity
    /\ err = [p \in Procs |-> "none"]
    /\ log = << >>

Init == InitWith({1}) /\ exc = NoExc

\* ----------------------------------------------------- save_base, by step
\* a save_base that takes a step only while no other caller is inside a save
InSaveLocked(p, pc) ==
    /\ status[p] = "running"
    /\ op[p] = "save"
    /\ stack[p] # << >>
    /\ Top(p).pc = pc
    /\ \A q \in Procs \ {p} :
          status[q] = "running" => stack[q][1].pc = "enter"

\* caller p is inside save_base, at the step pc of its innermost call;
\* nothing of another caller is read
InSave(p, pc) ==
    /\ status[p] = "running"
    /\ op[p] = "save"
    /\ stack[p] # << >>
    /\ Top(p).pc = pc

\* save_base without its assertion
SaveAssertionOff(force_insert, force_update) == TRUE

\* line 315: assert not (force_insert and force_update)
SaveAssertion(force_insert, force_update) == ~(force_insert /\ force_update)

\* lines 315-325: the assertion, cls/origin, the pre_save signal
SaveEnter(p) ==
    /\ InSave(p, "enter")
    /\ LET f == Top(p)
           cls == IF f.cls = NoType THEN etype[p] ELSE f.cls
           origin == IF f.cls = NoType /\ ~IsProxy(cls) THEN cls ELSE f.origin
       IN IF ~SaveAssertion(f.force_insert, f.force_update)
          THEN /\ Raise(p, "AssertionError")
               /\ UNCHANGED log
          ELSE /\ stack' = SetTop(p, [f EXCEPT !.cls = cls, !.origin = origin,
                                               !.pc = "parents"])
               /\ log' = IF origin # NoType /\ ~AutoCreated(cls)
                         THEN Append(log, Signal(p, "pre_save", origin,
                                                 entity[p], FALSE))
                         ELSE log
               /\ UNCHANGED <<status, err>>
    /\ UNCHANGED <<exc, config, etype, entity, entry, op>>

\* line 340 with the loop over the parents never entered
NoMoreParents(cls, i) == FALSE

\* line 340: the loop over meta.parents.items() has a next parent
MoreParents(cls, i) == i <= Len(Parents(cls))

\* lines 336-339 with the class handed down as origin by every caller
ParentOriginAlways(cls) == cls

\* lines 336-339: org = cls if meta.proxy else None
ParentOrigin(cls) == IF IsProxy(cls) THEN cls ELSE NoType

\* lines 340-347: fill the parent's pk from the link, save the parent slice
SaveParent(p) ==
    /\ InSave(p, "parents")
    /\ LET f == Top(p)
           parent == Parents(f.cls)[f.i][1]
           field == Parents(f.cls)[f.i][2]
           ppk == PkAttname(parent)
           org == ParentOrigin(f.cls)
       IN /\ ~f.raw \/ IsProxy(f.cls)
          /\ MoreParents(f.cls, f.i)
          /\ entity' = IF field # NoField /\ entity[p][ppk] = None
                          /\ entity[p][field] # None
                       THEN [entity EXCEPT ![p][ppk] = entity[p][field]]
                       ELSE entity
          /\ stack' = [stack EXCEPT ![p] =
                          Append(@, Frame(parent, org, FALSE, FALSE))]
    /\ UNCHANGED <<exc, config, etype, entry, op, status, err, log>>

\* lines 349-350: back from the parent slice, copy its pk into the link
SaveSetLink(p) ==
    /\ InSave(p, "setlink")
    /\ LET f == Top(p)
           parent == Parents(f.cls)[f.i][1]
           field == Parents(f.cls)[f.i][2]
       IN /\ entity' = IF field # NoField
                       THEN [entity EXCEPT ![p][field] =
                                entity[p][PkAttname(parent)]]
                       ELSE entity
          /\ stack' = SetTop(p, [f EXCEPT !.i = f.i + 1, !.pc = "parents"])
    /\ UNCHANGED <<exc, config, etype, entry, op, status, err, log>>

\* a frame returns: to its caller's line 349, or to the caller of save()
Return(p) ==
    IF Len(stack[p]) = 1
    THEN /\ stack' = [stack EXCEPT ![p][1].pc = "returned"]
         /\ status' = [status EXCEPT ![p] = "done"]
    ELSE /\ stack' = [stack EXCEPT ![p] =
                [SubSeq(@, 1, Len(@) - 1) EXCEPT ![Len(@) - 1].pc = "setlink"]]
         /\ UNCHANGED status

\* lines 351-352: the loop is over; a proxy returns, others go on
SaveParentsDone(p) ==
    /\ InSave(p, "parents")
    /\ LET f == Top(p)
       IN /\ (f.raw /\ ~IsProxy(f.cls)) \/ ~MoreParents(f.cls, f.i)
          /\ IF IsProxy(f.cls)
             THEN Return(p)
             ELSE /\ stack' = SetTop(p, [f EXCEPT !.pc = "exist"])
                  /\ UNCHANGED status
    /\ UNCHANGED <<exc, config, etype, entity, entry, op, err, log>>


\* the slice's class cls answers for the URLs and the payload
SelfTypeIsSlice(self_type, cls) == cls

\* lines 361-362, 368, 380, 394: self.get_serializer(self) and
\* self.get_resource_url_*() are looked up on the instance, whatever cls is
SelfType(self_type, cls) == self_type

\* lines 355-376: pk_is_set, the payload, the existence check of a custom pk
SaveDetermineExistence(p) ==
    /\ InSave(p, "exist")
    /\ LET f == Top(p)
           pk_val == entity[p][PkAttname(f.cls)]
           t == SelfType(etype[p], f.cls)
           g == [f EXCEPT !.pk_is_set = pk_val # None,
                          !.payload = Encode(t, entity[p]),
                          !.pc = "dispatch"]
           url == get_resource_url_detail(config, t, entity[p])
       IN IF PkAttname(f.cls) \in {"pk", "id"}
          THEN /\ stack' = SetTop(p, g)
               /\ UNCHANGED <<status, err, log>>
          ELSE IF ~UrlResolves(config, t)
          THEN /\ Raise(p, "Exception")
               /\ UNCHANGED log
          ELSE \E o \in Outcomes :
                /\ log' = Append(log, Request(p, "GET", f.cls, url, << >>,
                                              o, << >>))
                /\ IF o = "ok"
                   THEN /\ stack' = SetTop(p, g)
                        /\ UNCHANGED <<status, err>>
                   ELSE IF Catches("ResourceNotFound", o)
                           \/ Catches("RequestFailed", o)
                   THEN /\ stack' = SetTop(p, [g EXCEPT !.pk_is_set = FALSE])
                        /\ UNCHANGED <<status, err>>
                   ELSE Raise(p, o)
    /\ UNCHANGED <<exc, config, etype, entity, entry, op>>

\* line 378 with the test of the pk inverted
IsUpdateInverted(force_update, pk_is_set, self_pk) ==
    force_update \/ ~(pk_is_set /\ self_pk # None)

\* line 378 without its second operand: only force_update chooses PUT
IsUpdateForcedOnly(force_update, pk_is_set, self_pk) == force_update

\* line 378 without pk_is_set: the answer of the existence check is ignored
IsUpdateIgnoringCheck(force_update, pk_is_set, self_pk) ==
    force_update \/ self_pk # None

\* the slice's own pk value alone decides
IsUpdateIgnoringSelfPk(force_update, pk_is_set, self_pk) ==
    force_update \/ pk_is_set

\* line 378: force_update or pk_is_set and not self.pk is None
IsUpdate(force_update, pk_is_set, self_pk) ==
    force_update \/ (pk_is_set /\ self_pk # None)

\* line 391 / 405: ROAException(e) built from a RequestFailed
WrapRequestFailed(cfg) == "ROAException"

\* line 416: ROAException('Invalid deserialization'); with ROA_DJANGO_ERRORS
\* the constructor reads .message of its argument, which a str has not
WrapInvalid(cfg) == IF cfg.django_errors THEN "AttributeError" ELSE "ROAException"

\* the failed request is swallowed and save_base stays in DISPATCH
DispatchFailureRetried(p, o) == UNCHANGED <<status, err, stack>>

\* a not-found answer to the PUT/POST is recovered as the one of the
\* existence check is: save_base goes on with an empty response
DispatchFailureNotFoundRecovered(p, o) ==
    IF Catches("ResourceNotFound", o)
    THEN /\ stack' = SetTop(p, [Top(p) EXCEPT !.pc = "reconcile"])
         /\ UNCHANGED <<status, err>>
    ELSE IF Catches("RequestFailed", o)
    THEN Raise(p, WrapRequestFailed(config))
    ELSE Raise(p, o)

\* lines 390-391, 404-405: except RequestFailed as e: raise ROAException(e);
\* any other error of the transport client leaves save_base as it is
DispatchFailure(p, o) ==
    IF Catches("RequestFailed", o)
    THEN Raise(p, WrapRequestFailed(config))
    ELSE Raise(p, o)

\* lines 378-405: one PUT to the detail URL or one POST to the list URL
SaveDispatch(p) ==
    /\ InSave(p, "dispatch")
    /\ LET f == Top(p)
           update == IsUpdate(f.force_update, f.pk_is_set,
                              entity[p][PkAttname(etype[p])])
           t == SelfType(etype[p], f.cls)
           url == IF update
                  THEN get_resource_url_detail(config, t, entity[p])
                  ELSE <<get_resource_url_list(config, t)>>
           verb == IF update THEN "PUT" ELSE "POST"
       IN IF ~UrlResolves(config, t)
          THEN /\ Raise(p, "Exception")
               /\ UNCHANGED log
          ELSE \E o \in Outcomes :
               \E body \in IF o = "ok" THEN ResponseBodies ELSE {<< >>} :
                /\ log' = Append(log, Request(p, verb, f.cls, url, f.payload,
                                              o, body))
                /\ IF o = "ok"
                   THEN /\ stack' = SetTop(p, [f EXCEPT
                                          !.record_exists = update,
                                          !.body = body,
                                          !.pc = "reconcile"])
                        /\ UNCHANGED <<status, err>>
                   ELSE DispatchFailure(p, o)
    /\ UNCHANGED <<exc, config, etype, entity, entry, op>>

\* line 418: self = serializer.object rebinds the local name self only
RebindSelf(attrs, decoded) == attrs

\* lines 407-418: remap the names in the response body, decode it, validate,
\* self = serializer.object
SaveReconcile(p) ==
    /\ InSave(p, "reconcile")
    /\ LET f == Top(p)
           response == Remap(f.body, config.name_mapping)
       IN IF ~Parses(response)
          THEN /\ Raise(p, "ParseError")
               /\ UNCHANGED entity
          ELSE IF ~IsValid(etype[p], response)
          THEN /\ Raise(p, WrapInvalid(config))
               /\ UNCHANGED entity
          ELSE /\ stack' = SetTop(p, [f EXCEPT
                               !.obj = DecodedObject(etype[p], response),
                               !.rebound = TRUE,
                               !.pc = "post"])
               /\ entity' = [entity EXCEPT ![p] =
                               RebindSelf(@, DecodedObject(etype[p], response))]
               /\ UNCHANGED <<status, err>>
    /\ UNCHANGED <<exc, config, etype, entry, op, log>>

\* line 422 with the flag inverted
CreatedInverted(record_exists) == record_exists

\* line 422: created=(not record_exists)
Created(record_exists) == ~record_exists

\* lines 420-422: the post_save signal, then save_base returns
SavePostSave(p) ==
    /\ InSave(p, "post")
    /\ LET f == Top(p)
       IN log' = IF f.origin # NoType
                 THEN Append(log, Signal(p, "post_save", f.origin,
                                         IF f.rebound THEN f.obj ELSE entity[p],
                                         Created(f.record_exists)))
                 ELSE log
    /\ Return(p)
    /\ UNCHANGED <<exc, config, etype, entity, entry, op, err>>

\* line 427 without the assertion
DeleteNoPrecondition(pk_val) == TRUE

\* line 427: assert self._get_pk_val() is not None
DeletePrecondition(pk_val) == pk_val # None

\* line 432 addressing the list URL
DeleteUrlList(cfg, t, attrs) == <<get_resource_url_list(cfg, t)>>

\* line 432: Resource(self.get_resource_url_detail(), ...)
DeleteUrl(cfg, t, attrs) == get_resource_url_detail(cfg, t, attrs)

\* lines 426-438: delete()
Delete(p) ==
    /\ status[p] = "running"
    /\ op[p] = "delete"
    /\ IF ~DeletePrecondition(entity[p][PkAttname(etype[p])])
       THEN /\ Raise(p, "AssertionError")
            /\ UNCHANGED log
       ELSE IF ~UrlResolves(config, etype[p])
       THEN /\ Raise(p, "Exception")
            /\ UNCHANGED log
       ELSE \E o \in Outcomes :
             /\ log' = Append(log, Request(p, "DELETE", etype[p],
                           DeleteUrl(config, etype[p], entity[p]),
                           << >>, o, << >>))
             /\ IF o = "ok"
                THEN /\ status' = [status EXCEPT ![p] = "done"]
                     /\ UNCHANGED <<err, stack>>
                ELSE Raise(p, o)
    /\ UNCHANGED <<exc, config, etype, entity, entry, op>>

Next ==
    \E p \in Procs :
        \/ SaveEnter(p)
        \/ SaveParent(p)
        \/ SaveSetLink(p)
        \/ SaveParentsDone(p)
        \/ SaveDetermineExistence(p)
        \/ SaveDispatch(p)
        \/ SaveReconcile(p)
        \/ SavePostSave(p)
        \/ Delete(p)

Spec == Init /\ [][Next]_vars

\* ------------------------------------------------- two racing callers
\* the types the racing callers save: a conventional key (saved through a
\* proxy, so that the loop over the parents runs) and a custom key
RaceTypes == {"ProxyPage", "SlugPage"}

\* callers 1 and 2 each call save() on their own instance of the same
\* logical entity: same type, same attribute values, no force flag
InitRace ==
    /\ InitWith({1, 2})
    /\ etype[1] = etype[2] /\ entity[1] = entity[2]
    /\ etype[1] \in RaceTypes
    /\ \A p \in {1, 2} :
          /\ op[p] = "save"
          /\ ~stack[p][1].force_insert /\ ~stack[p][1].force_update
    /\ exc = NoExc

\* one step of the save of caller p
SaveStep(p) ==
    \/ SaveEnter(p)
    \/ SaveParent(p)
    \/ SaveSetLink(p)
    \/ SaveParentsDone(p)
    \/ SaveDetermineExistence(p)
    \/ SaveDispatch(p)
    \/ SaveReconcile(p)
    \/ SavePostSave(p)

\* the steps of the callers interleave in any order
NextRace == \E p \in Procs : SaveStep(p)

SpecRace == InitRace /\ [][NextRace]_vars

\* ------------------------------------------------- the URL resolver
\* caller 1 holds an instance and asks for its three URLs, in any order
InitUrl ==
    /\ config \in Configs
    /\ \E t \in Types : \E a \in InitialAttrs(t) :
          /\ etype = [p \in Procs |-> IF p = 1 THEN t ELSE IdleCall.t]
          /\ entity = [p \in Procs |-> IF p = 1 THEN a ELSE NoAttrs]
    /\ entry = entity
    /\ op = [p \in Procs |-> IF p = 1 THEN "resolve" ELSE "none"]
    /\ status = [p \in Procs |-> IF p = 1 THEN "running" ELSE "off"]
    /\ stack = [p \in Procs |-> << >>]
    /\ err = [p \in Procs |-> "none"]
    /\ log = << >>
    /\ exc = NoExc

\* the caller has not called the method kind of its instance yet
CanResolve(p, kind) ==
    /\ status[p] = "running"
    /\ op[p] = "resolve"
    /\ \A i \in DOMAIN log : ~(log[i].p = p /\ log[i].kind = kind)

\* what the call of a URL method gives: the URL it returns, or the
\* exception of line 299 reaching the caller
Resolved(p, kind, url) ==
    IF UrlResolves(config, etype[p])
    THEN Event(p, kind, etype[p], url, << >>, "ok", << >>, NoAttrs, FALSE)
    ELSE Event(p, kind, etype[p], << >>, << >>, "Exception", << >>,
               NoAttrs, FALSE)

\* lines 276-278, 459-462: instance.get_resource_url_list()
ResolveList(p) ==
    /\ CanResolve(p, "list_url")
    /\ log' = Append(log, Resolved(p, "list_url",
                        <<get_resource_url_list(config, etype[p])>>))
    /\ UNCHANGED <<exc, config, etype, entity, entry, op, status, err, stack>>

\* lines 284-286, 304-305, 470-472: instance.get_resource_url_detail()
ResolveDetail(p) ==
    /\ CanResolve(p, "detail_url")
    /\ log' = Append(log, Resolved(p, "detail_url",
                        get_resource_url_detail(config, etype[p], entity[p])))
    /\ UNCHANGED <<exc, config, etype, entity, entry, op, status, err, stack>>

\* lines 280-282, 301-302, 465-467: instance.get_resource_url_count()
ResolveCount(p) ==
    /\ CanResolve(p, "count_url")
    /\ log' = Append(log, Resolved(p, "count_url",
                        get_resource_url_count(config, etype[p], entity[p])))
    /\ UNCHANGED <<exc, config, etype, entity, entry, op, status, err, stack>>

NextUrl ==
    \E p \in Procs :
        \/ ResolveList(p)
        \/ ResolveDetail(p)
        \/ ResolveCount(p)

SpecUrl == InitUrl /\ [][NextUrl]_vars

\* ------------------------------------------- ROAException, by operation
\* exceptions.py lines 7-12: __init__
ExcInit ==
    /\ exc.pc = "new"
    /\ exc' = IF config.django_errors
              THEN IF exc.kind = "str"
                   THEN [exc EXCEPT !.pc = "AttributeError"]
                   ELSE [exc EXCEPT !.pc = "built",
                                    !.message = exc.arg_message,
                                    !.status_code = exc.arg_status]
              ELSE [exc EXCEPT !.pc = "built", !.message = exc.arg_message]
    /\ UNCHANGED <<config, etype, entity, entry, op, status, err, stack, log>>

\* line 19: split(mark, 1)[1] needs the mark to occur in the message
SplitSucceeds(message) == Occurrences(message, SummaryStart) # {}

\* exceptions.py lines 14-15: __str__
\* ROA_DJANGO_ERRORS and self.parse_django_error() or self.message
ExcStr ==
    /\ exc.pc = "built"
    /\ exc' = IF config.django_errors
              THEN IF SplitSucceeds(exc.message)
                   THEN [exc EXCEPT !.pc = "shown",
                            !.str = parse_django_error(exc.message,
                                                       exc.status_code)]
                   ELSE [exc EXCEPT !.pc = "IndexError"]
              ELSE [exc EXCEPT !.pc = "shown", !.str = exc.message]
    /\ UNCHANGED <<config, etype, entity, entry, op, status, err, stack, log>>

InitExc == InitWith({}) /\ exc \in NewExcs

NextExc == ExcInit \/ ExcStr

SpecExc == InitExc /\ [][NextExc]_vars


\* ------------------------------------------------- reading the log
Saving(p) == op[p] = "save"

Deleting(p) == op[p] = "delete"

ForceUpdate(p) == stack[p][1].force_update

UrlOK(p) == UrlResolves(config, etype[p])

Verbs == {"GET", "PUT", "POST", "DELETE"}

\* the requests caller p has issued in the slice cls, with a verb in kinds
Reqs(p, cls, kinds) ==
    {i \in DOMAIN log : log[i].p = p /\ log[i].cls = cls /\ log[i].kind \in kinds}

\* every request caller p has issued
AllReqs(p) == {i \in DOMAIN log : log[i].p = p /\ log[i].kind \in Verbs}

EventsOf(p) == {i \in DOMAIN log : log[i].p = p}

\* the slice that carries the entity's own request: the concrete model
OwnSlice(t) == IF IsProxy(t) THEN Parents(t)[1][1] ELSE t

CustomPk(t) == PkAttname(t) \notin {"pk", "id"}

\* the save_base invocation of p for the slice cls has gone through DISPATCH:
\* its frame is past it (or failed in it with the request sent), or the
\* frame has returned to the loop over the parents
SliceDispatched(p, cls) ==
    \/ \E k \in DOMAIN stack[p] :
          /\ stack[p][k].cls = cls
          /\ \/ stack[p][k].pc \in {"reconcile", "post", "returned"}
             \/ /\ stack[p][k].pc = "dispatch"
                /\ status[p] = "failed"
                /\ err[p] # "Exception"
    \/ \E k \in DOMAIN stack[p] :
          /\ stack[p][k].cls # NoType
          /\ \E j \in DOMAIN Parents(stack[p][k].cls) :
                /\ Parents(stack[p][k].cls)[j][1] = cls
                /\ \/ stack[p][k].i > j
                   \/ stack[p][k].i = j /\ stack[p][k].pc = "setlink"

\* the value the payload of request i carries for the field f
PayloadValue(i, f) == ParsedValue(log[i].payload, f)

ListUrlOf(p) == <<get_resource_url_list(config, etype[p])>>

\* ---------------------------------------------------------------- C1
\* C1 as stated: for every entity whose pk is None when save() is called
\* without force_update, the entity's own slice issues no PUT, at most one
\* POST and, once it has gone through DISPATCH, one POST to the list URL.
C1_Original ==
    \A p \in Procs :
        (Saving(p) /\ ~ForceUpdate(p) /\ UrlOK(p)
         /\ entry[p][PkAttname(etype[p])] = None)
        => LET c == OwnSlice(etype[p])
           IN /\ Reqs(p, c, {"PUT"}) = {}
              /\ Cardinality(Reqs(p, c, {"POST"})) <= 1
              /\ SliceDispatched(p, c) =>
                    \E i \in Reqs(p, c, {"POST"}) : log[i].url = ListUrlOf(p)

\* C1 (amended): for every entity whose pk is None when its own slice is
\* dispatched (the payload carries pk None), a save() without force_update
\* issues for that slice exactly one request, a POST addressed to the list
\* URL, and no PUT, whatever the server answers.
C1_PkNoneAtDispatchPosts ==
    \A p \in Procs :
        (Saving(p) /\ ~ForceUpdate(p) /\ UrlOK(p))
        => LET c == OwnSlice(etype[p])
               own == Reqs(p, c, {"PUT", "POST"})
           IN /\ Cardinality(own) <= 1
              /\ \A i \in own :
                    PayloadValue(i, PkAttname(etype[p])) = None
                    => log[i].kind = "POST" /\ log[i].url = ListUrlOf(p)
              /\ SliceDispatched(p, c) => own # {}

C1_Witness ==
    \E p \in Procs :
        /\ Saving(p) /\ ~ForceUpdate(p) /\ status[p] = "done"
        /\ \E i \in Reqs(p, OwnSlice(etype[p]), {"POST"}) :
              /\ PayloadValue(i, PkAttname(etype[p])) = None
              /\ log[i].url = ListUrlOf(p)

\* ---------------------------------------------------------------- C3
\* C3: for every entity with a non-null pk whose type uses the conventional
\* primary key (attname pk or id), save() issues exactly one request, a PUT
\* to the detail URL: no POST and no existence-check GET.
C3_ConventionalPkPuts ==
    \A p \in Procs :
        (Saving(p) /\ UrlOK(p) /\ ~CustomPk(etype[p])
         /\ entry[p][PkAttname(etype[p])] # None)
        => /\ Cardinality(AllReqs(p)) <= 1
           /\ \A i \in AllReqs(p) :
                 /\ log[i].kind = "PUT"
                 /\ log[i].url = get_resource_url_detail(config, etype[p], entry[p])
           /\ SliceDispatched(p, OwnSlice(etype[p])) => AllReqs(p) # {}

C3_Witness ==
    \E p \in Procs :
        /\ Saving(p) /\ ~CustomPk(etype[p]) /\ status[p] = "done"
        /\ entry[p][PkAttname(etype[p])] # None
        /\ \E i \in AllReqs(p) : log[i].kind = "PUT"

\* ---------------------------------------------------------------- C4
\* what C4 says of a save of p whose existence-check GET was answered
\* not-found: the GET is the slice's first request, the slice issues no PUT
\* and one POST to the list URL
NotFoundThenPost(p) ==
    LET c == etype[p]
        own == Reqs(p, c, {"PUT", "POST"})
    IN \A g \in Reqs(p, c, {"GET"}) :
          log[g].outcome = "ResourceNotFound"
          => /\ log[g].url = get_resource_url_detail(config, etype[p], entity[p])
             /\ Cardinality(own) <= 1
             /\ \A i \in own :
                   i > g /\ log[i].kind = "POST" /\ log[i].url = ListUrlOf(p)
             /\ SliceDispatched(p, c) => own # {}

\* C4 as stated: for an entity of a type with a custom primary key whose
\* remote counterpart does not exist, save() issues a GET to the detail URL,
\* receives not-found, then a POST to the list URL, and never a PUT.
C4_Original ==
    \A p \in Procs :
        (Saving(p) /\ UrlOK(p) /\ CustomPk(etype[p])) => NotFoundThenPost(p)

\* C4 (amended): the same, for a save() called without force_update.
C4_NotFoundThenPostUnlessForced ==
    \A p \in Procs :
        (Saving(p) /\ UrlOK(p) /\ CustomPk(etype[p]) /\ ~ForceUpdate(p))
        => NotFoundThenPost(p)

C4_Witness ==
    \E p \in Procs :
        /\ Saving(p) /\ CustomPk(etype[p]) /\ ~ForceUpdate(p)
        /\ entry[p][PkAttname(etype[p])] # None
        /\ status[p] = "done"
        /\ \E g \in Reqs(p, etype[p], {"GET"}) :
              /\ log[g].outcome = "ResourceNotFound"
              /\ \E i \in Reqs(p, etype[p], {"POST"}) : i > g

\* ---------------------------------------------------------------- C5
\* C5: delete() on an entity whose pk is None fails with the precondition
\* (assertion) error and issues no network call.
C5_DeleteWithoutPkFails ==
    \A p \in Procs :
        (Deleting(p) /\ entry[p][PkAttname(etype[p])] = None)
        => /\ EventsOf(p) = {}
           /\ status[p] # "done"
           /\ status[p] = "failed" => err[p] = "AssertionError"

C5_Witness ==
    \E p \in Procs :
        /\ Deleting(p) /\ entry[p][PkAttname(etype[p])] = None
        /\ status[p] = "failed" /\ err[p] = "AssertionError"


\* ---------------------------------------------------------------- C2
\* C2: after a save() that completes successfully the entity the caller
\* passed in holds the attribute values decoded from the server response to
\* its own PUT/POST (so an entity saved with pk None has the server's pk).
C2_EntityHoldsDecoded ==
    \A p \in Procs :
        (Saving(p) /\ status[p] = "done")
        => \A i \in Reqs(p, OwnSlice(etype[p]), {"PUT", "POST"}) :
              entity[p] = DecodedObject(etype[p],
                              Remap(log[i].body, config.name_mapping))

\* ---------------------------------------------------------------- C6
\* the parents of the type that are linked by a field (multi-table parents)
LinkedParents(t) == {j \in DOMAIN Parents(t) : Parents(t)[j][2] # NoField}

\* C6: when a child entity with an unset parent link is saved, every request
\* of each parent-slice save (there is at least one PUT/POST per parent)
\* comes before the child's own PUT/POST, and the child's own slice issues
\* exactly one PUT/POST once it has gone through DISPATCH, never more.
C6_ParentsBeforeChild ==
    \A p \in Procs :
        (Saving(p) /\ UrlOK(p)
         /\ \E j \in LinkedParents(etype[p]) : entry[p][Parents(etype[p])[j][2]] = None)
        => LET c == etype[p]
               own == Reqs(p, c, {"PUT", "POST"})
           IN /\ Cardinality(own) <= 1
              /\ SliceDispatched(p, c) => own # {}
              /\ \A i \in own : \A j \in LinkedParents(c) :
                    LET par == Parents(c)[j][1]
                    IN /\ \E r \in Reqs(p, par, {"PUT", "POST"}) : r < i
                       /\ \A r \in Reqs(p, par, Verbs) : r < i

C6_Witness ==
    \E p \in Procs :
        /\ Saving(p) /\ status[p] = "done" /\ etype[p] = "ComboPage"
        /\ entry[p]["remotepage_ptr_id"] = None
        /\ \E i \in Reqs(p, "ComboPage", {"PUT", "POST"}) :
              /\ \E r \in Reqs(p, "RemotePage", {"PUT", "POST"}) : r < i
              /\ \E r \in Reqs(p, "SlugPage", {"GET"}) : r < i
              /\ \E r \in Reqs(p, "SlugPage", {"PUT", "POST"}) : r < i

\* ---------------------------------------------------------------- C7
\* C7: once a parent-slice save has succeeded and its pk has been copied,
\* the child's link field equals the pk the server confirmed for the parent
\* in its answer to the parent slice's PUT/POST.
C7_LinkIsConfirmedParentPk ==
    \A p \in Procs :
        Saving(p) =>
        \A k \in DOMAIN stack[p] :
            stack[p][k].cls # NoType =>
            \A j \in LinkedParents(stack[p][k].cls) :
                LET par == Parents(stack[p][k].cls)[j][1]
                    field == Parents(stack[p][k].cls)[j][2]
                IN stack[p][k].i > j =>
                   \A r \in Reqs(p, par, {"PUT", "POST"}) :
                       PkAttname(par) \in ParsedNames(log[r].body)
                       => entity[p][field] =
                            DecodedObject(etype[p],
                                Remap(log[r].body, config.name_mapping))
                                    [PkAttname(par)]

\* ---------------------------------------------------------------- C8
\* C8: any transport failure of the PUT/POST makes save() raise a
\* ROAException and stop: nothing is decoded, the entity's attributes are
\* not replaced and no further request or notification follows.
C8_DispatchFailureIsROAException ==
    \A p \in Procs :
        \A i \in AllReqs(p) :
            (log[i].kind \in {"PUT", "POST"} /\ log[i].outcome # "ok")
            => /\ status[p] = "failed"
               /\ err[p] = "ROAException"
               /\ \A j \in EventsOf(p) : j <= i
               /\ Top(p).pc = "dispatch" /\ ~Top(p).rebound

\* ---------------------------------------------------------------- C9
\* the slices a save of an entity of type t goes through
Slices(t) == {OwnSlice(t)} \cup {Parents(t)[j][1] : j \in LinkedParents(t)}

\* C9: each save_base invocation of a non-proxy slice attempts exactly one
\* PUT or POST once it has gone through DISPATCH, never more; a failed request
\* ends the save (no retry, no later request); the only other requests of
\* the save are those of the other slices of the chain and, for a slice with
\* a custom primary key, one existence-check GET before its PUT/POST.
C9_OneDispatchPerSlice ==
    \A p \in Procs :
        (Saving(p) /\ UrlOK(p)) =>
        /\ \A i \in AllReqs(p) :
              /\ log[i].cls \in Slices(etype[p])
              /\ log[i].kind \in {"GET", "PUT", "POST"}
              /\ (log[i].kind # "GET" /\ log[i].outcome # "ok")
                 => status[p] = "failed" /\ \A j \in EventsOf(p) : j <= i
        /\ \A c \in Slices(etype[p]) :
              LET own == Reqs(p, c, {"PUT", "POST"})
                  gets == Reqs(p, c, {"GET"})
              IN /\ Cardinality(own) <= 1
                 /\ SliceDispatched(p, c) => Cardinality(own) = 1
                 /\ Cardinality(gets) <= IF CustomPk(c) THEN 1 ELSE 0
                 /\ \A g \in gets : \A i \in own : g < i

C9_Witness ==
    \E p \in Procs :
        /\ Saving(p) /\ status[p] = "failed" /\ etype[p] = "ComboPage"
        /\ Cardinality(Reqs(p, "RemotePage", {"PUT", "POST"})) = 1
        /\ Cardinality(Reqs(p, "SlugPage", {"GET"})) = 1
        /\ Cardinality(Reqs(p, "SlugPage", {"PUT", "POST"})) = 1
        /\ \E i \in Reqs(p, "ComboPage", {"PUT", "POST"}) :
              log[i].outcome = "RequestFailed"

\* --------------------------------------------------------------- C10
\* C10: delete() on an entity with a non-null pk issues exactly one request,
\* a DELETE addressed to the entity's detail URL, and nothing else.
C10_DeleteIssuesOneDelete ==
    \A p \in Procs :
        (Deleting(p) /\ UrlOK(p) /\ entry[p][PkAttname(etype[p])] # None)
        => /\ Cardinality(EventsOf(p)) <= 1
           /\ status[p] # "running" => EventsOf(p) # {}
           /\ \A i \in EventsOf(p) :
                 /\ log[i].kind = "DELETE"
                 /\ log[i].url = get_resource_url_detail(config, etype[p], entry[p])

C10_Witness ==
    \E p \in Procs :
        /\ Deleting(p) /\ status[p] = "done"
        /\ entry[p][PkAttname(etype[p])] # None
        /\ \E i \in EventsOf(p) : log[i].kind = "DELETE"

\* --------------------------------------------------------------- C11
\* the entity's own PUT/POST and the notifications of a save
OwnReqs(p) == Reqs(p, OwnSlice(etype[p]), {"PUT", "POST"})

PreSaves(p) == {i \in DOMAIN log : log[i].p = p /\ log[i].kind = "pre_save"}

PostSaves(p) == {i \in DOMAIN log : log[i].p = p /\ log[i].kind = "post_save"}

\* a name or value of the raw body as it reads once remote_name has been
\* replaced by local_name
Renamed(x, pair) == IF x = pair[2] THEN pair[1] ELSE x

\* C11: for every <<local_name, remote_name>> pair of the configured list,
\* every occurrence of remote_name in the raw response body (as a name or as
\* a value) reads local_name in what is decoded: the decoded object handed to
\* post_save holds, for each name/value of the body, the renamed value under
\* the renamed name, and nothing under remote_name; with the list
\* [("local_title", "title")] a body {"title": "X"} decodes to
\* local_title = "X".
C11_RemoteNamesReplacedBeforeDecoding ==
    \A p \in Procs : \A s \in PostSaves(p) : \A r \in OwnReqs(p) :
        \A k \in DOMAIN config.name_mapping :
            LET pair == config.name_mapping[k]
                body == log[r].body
                names == Range(FieldsOf(etype[p]))
                n == Len(body) \div 2
            IN /\ \A j \in 1..n :
                     (/\ Renamed(body[2 * j - 1], pair) \in names
                      /\ \A j2 \in (j + 1)..n :
                            Renamed(body[2 * j2 - 1], pair)
                                # Renamed(body[2 * j - 1], pair))
                     => log[s].inst[Renamed(body[2 * j - 1], pair)]
                            = Renamed(body[2 * j], pair)
               /\ (pair[2] \in names /\ pair[2] # pair[1])
                     => log[s].inst[pair[2]] = None
               /\ (pair = <<"local_title", "title">> /\ "local_title" \in names
                   /\ \E j \in 1..n : body[2 * j - 1] = "title" /\ body[2 * j] = "X")
                     => log[s].inst["local_title"] = "X"

C11_Witness ==
    \E p \in Procs : \E s \in PostSaves(p) : \E r \in OwnReqs(p) :
        /\ status[p] = "done" /\ etype[p] = "MappedPage"
        /\ config.name_mapping = TitleMapping
        /\ log[r].body = <<"title", "X", "slug", "title">>
        /\ log[s].inst["local_title"] = "X"

\* --------------------------------------------------------------- C12
\* C12: once the override table has an entry for the type's key, the list
\* URL of the type is the entry, whatever its value, and the type's own
\* get_resource_url_list is not what answers: every request of an entity of
\* the type is addressed under the override (the POST to it, the others to a
\* detail URL that starts with it).
C12_ListOverrideAlwaysWins ==
    \A p \in Procs :
        etype[p] \in DOMAIN config.list_overrides
        => /\ get_resource_url_list(config, etype[p])
                 = config.list_overrides[etype[p]]
           /\ \A i \in AllReqs(p) :
                 log[i].url[1] = config.list_overrides[etype[p]]

\* --------------------------------------------------------------- C13
\* the exception was built from a RequestFailed whose message is a
\* recognized diagnostic page (the summary mark occurs in it)
Recognized == exc.kind = "RequestFailed"
              /\ Occurrences(exc.arg_message, SummaryStart) # {}

\* the lines of the summary part of the page
Summary == BeforeFirst(AfterFirst(exc.arg_message, SummaryStart), SummaryEnd)

Content(j) == Strip(StripTags(Summary[j]))

NonEmpty == {j \in DOMAIN Summary : Content(j) # ""}

\* title lines: the lines that end with a colon, and the first line of the
\* summary when it does not (it is given a colon)
Titles == {j \in NonEmpty : EndsWithColon(Content(j))
                              \/ \A i \in NonEmpty : j <= i}

Details == NonEmpty \ Titles

TitleText(j) ==
    IF EndsWithColon(Content(j)) THEN Content(j) ELSE WithColon(Content(j))

\* the most recent title line before line j
RecentTitle(j) ==
    TitleText(CHOOSE t \in Titles : t < j /\ \A u \in Titles : u < j => u <= t)

\* the k-th detail line
Kth(k) == CHOOSE j \in Details : Cardinality({i \in Details : i <= j}) = k

\* the string form is the title/detail pairs in the order of the page, each
\* detail with the most recent title, then 'Status code: <status>'
ShownAsPairs ==
    LET n == Cardinality(Details)
    IN /\ Len(exc.str) = 3 * n + 2
       /\ \A k \in 1..n :
             /\ exc.str[3 * k - 2] = RecentTitle(Kth(k))
             /\ exc.str[3 * k - 1] = Content(Kth(k))
             /\ exc.str[3 * k] = "\n"
       /\ exc.str[3 * n + 1] = "Status code:"
       /\ exc.str[3 * n + 2] = exc.arg_status

\* C13 as stated: a ROAException built from a RequestFailed whose body is a
\* recognized diagnostic page has a string form made of the title/detail
\* pairs followed by the status code entry.
C13_Original == (Recognized /\ exc.pc = "shown") => ShownAsPairs

\* C13 (amended): the same when ROA_DJANGO_ERRORS is enabled; taking the
\* string form then succeeds and gives the pairs and the status code entry.
C13_PairsThenStatusWhenEnabled ==
    (Recognized /\ config.django_errors)
    => /\ exc.pc \in {"new", "built", "shown"}
       /\ exc.pc = "shown" => ShownAsPairs

C13_Witness ==
    /\ Recognized /\ config.django_errors /\ exc.pc = "shown"
    /\ exc.arg_message = <<SummaryStart, "<h1>Error</h1>", "  d  ", "T:", "  d  ">>
    /\ exc.str = <<"Error:", "d", "\n", "T:", "d", "\n", "Status code:", "500">>

\* --------------------------------------------------------------- C14
\* C14: a ROAException built from a failure whose body is not a recognized
\* diagnostic page has the raw failure message as its string form in every
\* configuration, and taking its string form never raises.
C14_UnrecognizedShownRaw ==
    (exc.kind = "RequestFailed"
     /\ Occurrences(exc.arg_message, SummaryStart) = {})
    => /\ exc.pc \in {"new", "built", "shown"}
       /\ exc.pc = "shown" => exc.str = exc.arg_message

\* --------------------------------------------------------------- C15
\* what C15 says of an existence-check GET g of caller p that failed: the
\* failure does not end the save (if the save fails, it fails later, in a
\* request issued after g), and unless force_update was requested of the
\* slice's save_base call the slice goes on to one POST to the list URL
ExistenceFailureRecovered(p, g) ==
    LET c == log[g].cls
        own == Reqs(p, c, {"PUT", "POST"})
    IN /\ status[p] = "failed" => \E j \in EventsOf(p) : j > g
       /\ SliceDispatched(p, c) => own # {}
       /\ ~(ForceUpdate(p) /\ c = etype[p])
            => \A i \in own : log[i].kind = "POST" /\ log[i].url = ListUrlOf(p)

\* C15: in the existence check of a custom primary key, a ResourceNotFound
\* or any other transport failure of the preliminary GET is not propagated:
\* the save continues as a create, with a POST to the list URL (unless
\* force_update was requested).
C15_ExistenceFailureNeverPropagates ==
    \A p \in Procs :
        (Saving(p) /\ UrlOK(p))
        => \A g \in AllReqs(p) :
              (log[g].kind = "GET" /\ log[g].outcome # "ok")
              => ExistenceFailureRecovered(p, g)

\* --------------------------------------------------------------- C16
\* C16: in every save the pre_save notification comes before every request
\* and before any parent-slice save (a recursive call exists, or has gone
\* past its first step, only once pre_save has fired); a post_save
\* notification comes only after the entity's own PUT/POST was answered and
\* its body decoded and validated, a successful save has fired it, and its
\* created flag is true exactly when that request was a POST and false
\* exactly when it was a PUT.
C16_PreSaveFirstPostSaveAfterReconcile ==
    \A p \in Procs :
        Saving(p) =>
        /\ \A i \in AllReqs(p) : \E s \in PreSaves(p) : s < i
        /\ \A k \in 2..Len(stack[p]) :
              (stack[p][k].pc # "enter" \/ ~IsProxy(etype[p]))
              => PreSaves(p) # {}
        /\ \A s \in PostSaves(p) :
              /\ OwnReqs(p) # {}
              /\ \A r \in OwnReqs(p) :
                    LET response == Remap(log[r].body, config.name_mapping)
                    IN /\ r < s
                       /\ log[r].outcome = "ok"
                       /\ Parses(response) /\ IsValid(etype[p], response)
                       /\ log[s].created <=> log[r].kind = "POST"
                       /\ ~log[s].created <=> log[r].kind = "PUT"
        /\ status[p] = "done" => PostSaves(p) # {}

C16_Witness ==
    \E p \in Procs : \E s \in PostSaves(p) : \E r \in OwnReqs(p) :
        /\ status[p] = "done" /\ etype[p] = "ChildPage"
        /\ log[r].kind = "POST" /\ log[s].created
        /\ \E q \in PreSaves(p) :
              \E i \in Reqs(p, "RemotePage", {"PUT", "POST"}) : q < i /\ i < r

\* --------------------------------------------------------------- C17
\* C17: a multi-table save of a non-proxy child fires exactly one pre_save
\* (once past the first step of the outermost call) and, on success, exactly
\* one post_save, never more, both with the child's type as sender and both
\* from the outermost call: while a recursive parent call is on the stack
\* the only notification is the one pre_save.
C17_OneNotificationPairFromOutermost ==
    \A p \in Procs :
        (Saving(p) /\ ~IsProxy(etype[p]) /\ LinkedParents(etype[p]) # {})
        => /\ Cardinality(PreSaves(p)) <= 1
           /\ Cardinality(PostSaves(p)) <= 1
           /\ \A s \in PreSaves(p) \cup PostSaves(p) : log[s].cls = etype[p]
           /\ stack[p][1].pc # "enter" => Cardinality(PreSaves(p)) = 1
           /\ status[p] = "done" => Cardinality(PostSaves(p)) = 1
           /\ Len(stack[p]) > 1 => PostSaves(p) = {}

C17_Witness ==
    \E p \in Procs :
        /\ Saving(p) /\ status[p] = "done" /\ etype[p] = "ComboPage"
        /\ Cardinality(PreSaves(p)) = 1 /\ Cardinality(PostSaves(p)) = 1
        /\ Reqs(p, "RemotePage", {"PUT", "POST"}) # {}
        /\ Reqs(p, "SlugPage", {"PUT", "POST"}) # {}

\* --------------------------------------------------------------- C18
\* request i of p is one a save_base call fails on: a PUT/POST that failed
\* or whose answer does not decode or validate, an existence-check GET whose
\* error is not caught
FailsSlice(p, i) ==
    LET response == Remap(log[i].body, config.name_mapping)
    IN \/ /\ log[i].kind \in {"PUT", "POST"}
          /\ \/ log[i].outcome # "ok"
             \/ ~Parses(response)
             \/ ~IsValid(etype[p], response)
       \/ /\ log[i].kind = "GET"
          /\ log[i].outcome \notin {"ok", "ResourceNotFound", "RequestFailed"}

\* C18: when the save of a parent slice fails during a multi-table save, the
\* whole chain aborts: the save does not complete, the failing request is
\* the last thing the save does (no request for a later parent or for the
\* child itself, no post_save), the outermost call never resumes and the
\* child's attributes are not replaced by a RECONCILE (they hold only values
\* the entity had at the call).
C18_ParentFailureAbortsChain ==
    \A p \in Procs :
        (Saving(p) /\ ~IsProxy(etype[p])) =>
        \A i \in AllReqs(p) :
            (log[i].cls # etype[p] /\ FailsSlice(p, i))
            => /\ status[p] = "failed" \/ Top(p).pc = "reconcile"
               /\ \A j \in EventsOf(p) : j <= i
               /\ Reqs(p, etype[p], Verbs) = {}
               /\ \A j \in LinkedParents(etype[p]) :
                     j > stack[p][1].i
                     => Reqs(p, Parents(etype[p])[j][1], Verbs) = {}
               /\ PostSaves(p) = {}
               /\ Len(stack[p]) > 1
               /\ stack[p][1].pc = "parents" /\ ~stack[p][1].rebound
               /\ \A f \in Fields :
                     entity[p][f] \in {entry[p][g] : g \in Fields}

C18_Witness ==
    \E p \in Procs :
        /\ Saving(p) /\ etype[p] = "ComboPage" /\ status[p] = "failed"
        /\ \E i \in Reqs(p, "RemotePage", {"PUT", "POST"}) :
              log[i].outcome = "RequestFailed"
        /\ Reqs(p, "SlugPage", Verbs) = {}
        /\ Reqs(p, "ComboPage", Verbs) = {}
        /\ PostSaves(p) = {}

\* --------------------------------------------------------------- C19
\* the existence-check GETs of p that made the slice a create
NotFoundGets(p) ==
    {g \in Reqs(p, etype[p], {"GET"}) :
        log[g].outcome \in {"ResourceNotFound", "RequestFailed"}}

\* C19: two save() calls racing to create the same logical entity do not
\* coordinate.  In every interleaving each caller can always take its next
\* step (it is never blocked by the other), issues its own PUT/POST exactly
\* once, with its own payload (never skipped, never merged with the other
\* caller's), and issues a POST to the list URL whenever its pk is None or
\* its own existence check answered not-found, whatever the other caller has
\* already sent.
C19_RacingSavesDoNotCoordinate ==
    \A p \in Procs :
        Saving(p) =>
        /\ status[p] = "running" => ENABLED SaveStep(p)
        /\ Cardinality(OwnReqs(p)) <= 1
        /\ SliceDispatched(p, OwnSlice(etype[p])) => OwnReqs(p) # {}
        /\ status[p] = "done" => \E i \in OwnReqs(p) : log[i].outcome = "ok"
        /\ \A i \in OwnReqs(p) :
              /\ log[i].payload = Encode(etype[p], entity[p])
              /\ (PayloadValue(i, PkAttname(etype[p])) = None
                  \/ NotFoundGets(p) # {})
                 => log[i].kind = "POST" /\ log[i].url = ListUrlOf(p)

\* both callers saw not-found before either created, and both created
C19_Witness ==
    /\ status[1] = "done" /\ status[2] = "done"
    /\ etype[1] = "SlugPage" /\ entry[1]["slug"] # None
    /\ \E g1 \in NotFoundGets(1) : \E g2 \in NotFoundGets(2) :
       \E r1 \in OwnReqs(1) : \E r2 \in OwnReqs(2) :
          /\ g1 < r1 /\ g1 < r2 /\ g2 < r1 /\ g2 < r2
          /\ log[r1].kind = "POST" /\ log[r2].kind = "POST"
          /\ log[r1].url = log[r2].url /\ log[r1].payload = log[r2].payload

\* --------------------------------------------------------------- C20
\* C20: whenever force_update is requested of save(), the DISPATCH step of
\* the entity issues a PUT to the detail URL and never a POST, whether or
\* not the pk is None and whatever the existence check answered.
C20_ForceUpdateAlwaysPuts ==
    \A p \in Procs :
        (Saving(p) /\ ForceUpdate(p) /\ UrlOK(p))
        => /\ SliceDispatched(p, OwnSlice(etype[p])) => OwnReqs(p) # {}
           /\ \A i \in OwnReqs(p) :
                 /\ log[i].kind = "PUT"
                 /\ log[i].url
                      = get_resource_url_detail(config, etype[p], entity[p])

\* --------------------------------------------------------------- C21
\* C21: a ResourceNotFound is recovered only in the existence-check GET of a
\* custom primary key (the save goes on to its PUT/POST); a not-found answer
\* to the PUT/POST of a save or to the DELETE of a delete makes the operation
\* fail with an error that reaches the caller: it is the last thing the
\* operation does, nothing is decoded and no post_save fires.
C21_NotFoundRecoveredOnlyInExistenceCheck ==
    \A p \in Procs : \A i \in AllReqs(p) :
        log[i].outcome = "ResourceNotFound"
        => IF log[i].kind = "GET"
           THEN /\ status[p] = "failed" => \E j \in EventsOf(p) : j > i
                /\ SliceDispatched(p, log[i].cls)
                      => \E j \in Reqs(p, log[i].cls, {"PUT", "POST"}) : j > i
           ELSE /\ status[p] = "failed" /\ err[p] # "none"
                /\ \A j \in EventsOf(p) : j <= i
                /\ PostSaves(p) = {}
                /\ Saving(p) => Top(p).pc = "dispatch" /\ ~Top(p).rebound

\* the existence check answered not-found and was recovered, then the PUT
\* was answered not-found and the save failed
C21_Witness ==
    \E p \in Procs :
        /\ Saving(p) /\ status[p] = "failed" /\ err[p] = "ResourceNotFound"
        /\ \E g \in Reqs(p, etype[p], {"GET"}) :
           \E i \in Reqs(p, etype[p], {"PUT"}) :
              /\ g < i
              /\ log[g].outcome = "ResourceNotFound"
              /\ log[i].outcome = "ResourceNotFound"

\* --------------------------------------------------------------- C22
\* C22: a response to the PUT/POST that does not parse, or that decodes to
\* an object failing validation, makes save() fail with a deserialization
\* error (the parser's error, or ROAException('Invalid deserialization')) in
\* every configuration; nothing replaces the entity's attributes, no
\* post_save fires and no further request is issued.
C22_BadResponseIsDeserializationError ==
    \A p \in Procs : \A i \in AllReqs(p) :
        LET response == Remap(log[i].body, config.name_mapping)
        IN (/\ log[i].kind \in {"PUT", "POST"}
            /\ log[i].outcome = "ok"
            /\ ~Parses(response) \/ ~IsValid(etype[p], response))
           => /\ status[p] = "failed" \/ Top(p).pc = "reconcile"
              /\ status[p] = "failed"
                    => err[p] \in {"ParseError", "ROAException"}
              /\ \A j \in EventsOf(p) : j <= i
              /\ ~Top(p).rebound

\* --------------------------------------------------------------- C23
\* the URLs caller p was answered, by method
UrlAnswers(p, kind) ==
    {i \in DOMAIN log : log[i].p = p /\ log[i].kind = kind
                        /\ log[i].outcome = "ok"}

NoProvider(t) == DefaultListUrl(t) = RaisesException

\* C24: for a type that defines no list-URL provider and has no list-URL
\* override, URL resolution fails with a configuration error: save() and
\* delete() on an entity of the type never complete and issue no request,
\* and fail with that error (unless their assertion fails first); with a
\* (non-empty) override for the type's key resolution succeeds: the
\* operation does not fail with the configuration error and its requests
\* are addressed under the override.
C24_NoProviderNoOverrideFails ==
    \A p \in Procs :
        (op[p] \in {"save", "delete"} /\ NoProvider(etype[p]))
        => IF etype[p] \notin DOMAIN config.list_overrides
           THEN /\ AllReqs(p) = {}
                /\ status[p] # "done"
                /\ status[p] = "failed"
                      => \/ err[p] = "Exception"
                         \/ /\ err[p] = "AssertionError"
                            /\ \/ Deleting(p)
                                  /\ entry[p][PkAttname(etype[p])] = None
                               \/ Saving(p) /\ stack[p][1].force_insert
                                  /\ stack[p][1].force_update
           ELSE config.list_overrides[etype[p]] # ""
                => /\ err[p] # "Exception"
                   /\ \A i \in AllReqs(p) :
                         log[i].url[1] = config.list_overrides[etype[p]]

\* a save that fired pre_save and then failed to resolve its URL
C24_Witness ==
    \E p \in Procs :
        /\ Saving(p) /\ NoProvider(etype[p])
        /\ etype[p] \notin DOMAIN config.list_overrides
        /\ status[p] = "failed" /\ err[p] = "Exception"
        /\ PreSaves(p) # {} /\ AllReqs(p) = {}

\* --------------------------------------------------------------- C25
\* the PUT/POST requests p's save has issued for the slices of its parents
ParentSliceReqs(p) ==
    {i \in AllReqs(p) : /\ log[i].kind \in {"PUT", "POST"}
                        /\ log[i].cls # etype[p]
                        /\ \E j \in LinkedParents(etype[p]) :
                              Parents(etype[p])[j][1] = log[i].cls}

\* C25: in the save of a parent slice of a multi-table save (which runs
\* without force_update), the request is a PUT only when both the parent
\* type's pk value and the saved instance's own pk are non-null at the
\* dispatch; if either is None the parent slice is POSTed to the list URL,
\* also when the parent's pk is set; a parent slice that has gone through
\* DISPATCH has issued its request, and no more than one.
C25_ParentSlicePutNeedsBothPks ==
    \A p \in Procs :
        (Saving(p) /\ UrlOK(p)) =>
        /\ \A i \in ParentSliceReqs(p) :
              (\/ PayloadValue(i, PkAttname(log[i].cls)) = None
               \/ PayloadValue(i, PkAttname(etype[p])) = None)
              => log[i].kind = "POST" /\ log[i].url = ListUrlOf(p)
        /\ \A j \in LinkedParents(etype[p]) :
              LET c == Parents(etype[p])[j][1]
              IN /\ Cardinality(Reqs(p, c, {"PUT", "POST"})) <= 1
                 /\ SliceDispatched(p, c) => Reqs(p, c, {"PUT", "POST"}) # {}

\* a parent slice POSTed although the parent's pk was set: the instance's
\* own pk was None
C25_Witness ==
    \E p \in Procs :
        /\ Saving(p) /\ status[p] = "done"
        /\ \E i \in ParentSliceReqs(p) :
              /\ log[i].kind = "POST"
              /\ PayloadValue(i, PkAttname(log[i].cls)) # None
              /\ PayloadValue(i, PkAttname(etype[p])) = None

\* --------------------------------------------------------------- C26
\* the attributes a payload was encoded from (None for what it leaves out)
AttrsOf(payload) ==
    [f \in Fields |-> IF f \in ParsedNames(payload)
                      THEN ParsedValue(payload, f) ELSE None]

\* the PUT/POST of p for the same slice that follows the request g
DispatchAfter(p, g) ==
    {i \in Reqs(p, log[g].cls, {"PUT", "POST"}) : i > g}

\* C26: every request of one outermost save, those of the recursive
\* parent-slice saves included, is addressed to the list URL or a detail
\* URL resolved from the saved instance itself (its most-derived type): a
\* POST goes to the instance's list URL, a PUT and an existence-check GET to
\* the instance's detail URL; every PUT/POST carries the payload encoded
\* from the whole instance (all the fields of its type); and no request of
\* a parent slice is addressed under the list URL of the parent type.
C26_RequestsResolvedFromInstance ==
    \A p \in Procs :
        (Saving(p) /\ UrlOK(p)) =>
        \A i \in AllReqs(p) :
            LET t == etype[p]
                sent == AttrsOf(log[i].payload)
            IN /\ log[i].url[1] = get_resource_url_list(config, t)
               /\ log[i].kind = "POST" => log[i].url = ListUrlOf(p)
               /\ log[i].kind = "PUT"
                    => log[i].url = get_resource_url_detail(config, t, sent)
               /\ log[i].kind \in {"PUT", "POST"}
                    => log[i].payload = Encode(t, sent)
               /\ log[i].kind = "GET"
                    => /\ log[i].payload = << >>
                       /\ \A j \in DispatchAfter(p, i) :
                             log[i].url = get_resource_url_detail(
                                              config, t, AttrsOf(log[j].payload))
                       /\ DispatchAfter(p, i) = {}
                             => log[i].url = get_resource_url_detail(
                                                 config, t, entity[p])
               /\ (log[i].cls # t /\ ~IsProxy(t))
                    => log[i].url[1] # get_resource_url_list(config, log[i].cls)

\* a finished multi-table save whose parent slice was sent to the child's
\* URL with the child's payload
C26_Witness ==
    \E p \in Procs :
        /\ Saving(p) /\ status[p] = "done" /\ LinkedParents(etype[p]) # {}
        /\ \E i \in ParentSliceReqs(p) :
              /\ log[i].url[1] = get_resource_url_list(config, etype[p])
              /\ ParsedNames(log[i].payload) = Range(FieldsOf(etype[p]))
              /\ ParsedNames(log[i].payload) # Range(FieldsOf(log[i].cls))

\* --------------------------------------------------------------- C27
\* the save of p was requested with both force_insert and force_update
BothForced(p) ==
    Saving(p) /\ stack[p][1].force_insert /\ stack[p][1].force_update

\* C27: a save requested with both force_insert and force_update fails an
\* assertion before any pre_save notification, before any parent-slice save
\* and before any network call, and leaves the entity unchanged: it never
\* completes, nothing of it is ever logged (no signal, no request), no
\* second save_base invocation is ever on its stack, the entity is the one
\* handed in, and once it has taken its step it has failed with
\* AssertionError in its first statement.
C27_BothForceFlagsFailFirst ==
    \A p \in Procs :
        BothForced(p) =>
        /\ EventsOf(p) = {}
        /\ Len(stack[p]) = 1
        /\ stack[p][1].pc = "enter"
        /\ entity[p] = entry[p]
        /\ status[p] \in {"running", "failed"}
        /\ status[p] = "failed" => err[p] = "AssertionError"

\* the assertion has failed for the save of a child entity, whose parents
\* would have been saved first
C27_Witness ==
    \E p \in Procs :
        /\ BothForced(p) /\ LinkedParents(etype[p]) # {}
        /\ status[p] = "failed" /\ err[p] = "AssertionError"
        /\ EventsOf(p) = {} /\ entity[p] = entry[p]

====
